---- MODULE Spec2Model ----
(***************************************************************************)
(* Model of relation_engine_server/utils/ensure_specs.py: the comparison   *)
(* of locally declared index / view / analyzer specs with the specs that   *)
(* are live on the ArangoDB server.                                        *)
(*                                                                         *)
(* JSON values are tagged records [kind, val]:                             *)
(*   "int"   val an integer          "bool"  val 0 or 1                    *)
(*   "float" val <<w, f>>: the number w + f * 10^-(Places+1),              *)
(*           0 <= f < 10^(Places+1)                                        *)
(*   "str"   val a string            "list"  val a sequence of values      *)
(*   "dict"  val a function from key strings to values                     *)
(***************************************************************************)
EXTENDS Integers, Sequences, FiniteSets, TLC

VARIABLES
    \* ---- one call of ensure_all, or of one family's function ----
    entry,              \* the function that was called
    pc,                 \* where control is: the function about to run, or
                        \* "return", "returned", "raised"
    calls,              \* the calls made to arango_client so far, in order
    finished,           \* the family functions that have returned, in order
    fetched,            \* the current family's server state as fetched
    server,             \* the current family's server state, as the matcher sees it
    local,              \* the current family's local specs
    failed_specs,       \* the current family's failure struct
    failed_indexes_names, failed_views_names, failed_analyzers_names,
    result,             \* what ensure_all returned (a sequence of key/value pairs)
    raised,             \* the exception that left ensure_all, "" if none
    \* ---- mod_obj_literal applied to one structure ----
    spec_unit,          \* the structure, rewritten in place
    literal_type,       \* "float" or "str"
    func,               \* "round_float" or "excise_namespace"
    hist                \* spec_unit as given and after each application

runVars == <<entry, pc, calls, finished, fetched, server, local, failed_specs, failed_indexes_names,
             failed_views_names, failed_analyzers_names, result, raised>>
normVars == <<spec_unit, literal_type, func, hist>>
vars == <<runVars, normVars>>

-----------------------------------------------------------------------------
(* Bounds *)
MaxLen == 2         \* longest list of scalars in a generated structure
MaxNest == 1        \* longest list of containers in a generated structure
MaxApply == 2       \* applications of mod_obj_literal to one structure
MaxLocal == 2       \* local specs of a family (local indexes of a collection)
MaxServer == 2      \* server specs of a family (server indexes of a collection)
MaxAll == 1         \* the same two, for the families run by ensure_all

(* round_float: round(num, 7) *)
Places == 7

-----------------------------------------------------------------------------
(* JSON values *)
JInt(n) == [kind |-> "int", val |-> n]
JBool(b) == [kind |-> "bool", val |-> b]
JFloat(num) == [kind |-> "float", val |-> num]
JStr(s) == [kind |-> "str", val |-> s]
JList(q) == [kind |-> "list", val |-> q]
JDict(f) == [kind |-> "dict", val |-> f]

\* One unit of a float's fraction is 10^-(Places+1); FloatUnit of them make 1.0.
FloatUnit == 10 ^ (Places + 1)

isinstance(v, type) == v.kind = type

-----------------------------------------------------------------------------
(* round_float, excise_namespace, mod_obj_literal *)

\* the fraction units in 10^-Places: the step between two rounded values
Step == FloatUnit \div (10 ^ Places)

\* round(num, 7) on a float <<w, f>>: the nearest multiple of 10^-7.  A value
\* exactly half way is rounded to the even neighbour (CPython rounds the exact
\* binary value, so for such a literal the direction depends on its binary
\* expansion; the float values used below are never half way).
round_float_trunc(num) == <<num[1], (num[2] \div Step) * Step>>
round_float(num) ==
    LET q == num[2] \div Step
        r == num[2] % Step
        up == 2 * r > Step \/ (2 * r = Step /\ q % 2 = 1)
        f == IF up THEN (q + 1) * Step ELSE q * Step
    IN  IF f = FloatUnit THEN <<num[1] + 1, 0>> ELSE <<num[1], f>>

\* str.find: the first position (from 1) at which sep occurs in s, 0 if none
find(s, sep) ==
    LET hits == {i \in 1..(Len(s) - Len(sep) + 1) :
                    SubSeq(s, i, i + Len(sep) - 1) = sep}
    IN  IF hits = {} THEN 0
        ELSE CHOOSE i \in hits : \A j \in hits : i <= j

\* str.split(sep): the pieces between the occurrences of sep, found scanning
\* from the left, an occurrence starting where the previous one ended at the
\* earliest
RECURSIVE split(_, _)
split(s, sep) ==
    LET i == find(s, sep)
    IN  IF i = 0 THEN <<s>>
        ELSE <<SubSeq(s, 1, i - 1)>> \o split(SubSeq(s, i + Len(sep), Len(s)), sep)

\* a plausible slip: split("::", 1)[-1], which drops the first namespace only
excise_namespace_first(analyzer_name) ==
    LET i == find(analyzer_name, "::")
    IN  IF i = 0 THEN analyzer_name
        ELSE SubSeq(analyzer_name, i + 2, Len(analyzer_name))
excise_namespace(analyzer_name) ==
    LET parts == split(analyzer_name, "::")
    IN  parts[Len(parts)]

\* func(v) for the two transforms passed to mod_obj_literal
Call(f, v) ==
    IF f = "round_float" THEN JFloat(round_float(v.val))
    ELSE JStr(excise_namespace(v.val))

\* mod_obj_literal: the structure as it is after the in-place rewrite
RECURSIVE mod_obj_literal(_, _, _)
mod_obj_literal_dicts_only(unit, type, f) ==
    IF isinstance(unit, "dict") THEN
        JDict([k \in DOMAIN unit.val |->
                LET v == unit.val[k]
                IN  IF isinstance(v, "dict") \/ isinstance(v, "list")
                    THEN mod_obj_literal(v, type, f)
                    ELSE IF isinstance(v, type) THEN Call(f, v) ELSE v])
    ELSE unit
mod_obj_literal(unit, type, f) ==
    IF isinstance(unit, "dict") THEN
        JDict([k \in DOMAIN unit.val |->
                LET v == unit.val[k]
                IN  IF isinstance(v, "dict") \/ isinstance(v, "list")
                    THEN mod_obj_literal(v, type, f)
                    ELSE IF isinstance(v, type) THEN Call(f, v) ELSE v])
    ELSE IF isinstance(unit, "list") THEN
        JList([i \in 1..Len(unit.val) |->
                LET v == unit.val[i]
                IN  IF isinstance(v, "dict") \/ isinstance(v, "list")
                    THEN mod_obj_literal(v, type, f)
                    ELSE IF isinstance(v, type) THEN Call(f, v) ELSE v])
    ELSE unit

-----------------------------------------------------------------------------
(* The structures mod_obj_literal is applied to *)

Leaves ==
    { JFloat(<<1000, 1>>),                    \* 1000.00000001
      JInt(1000),
      JStr("a::b::c"),
      JStr("a:::b") }

Keys == {"name", "x"}

\* the lists of at most n elements of S
SeqsUpTo(S, n) == UNION {[1..m -> S] : m \in 0..n}

\* the dicts whose keys are among Keys and whose values are in S
DictsOf(S) == UNION {[K -> S] : K \in SUBSET Keys}

Level1 == {JList(q) : q \in SeqsUpTo(Leaves, MaxLen)}
            \cup {JDict(d) : d \in DictsOf(Leaves)}

Structures ==
    {JList(q) : q \in SeqsUpTo(Level1, MaxNest)}
        \cup {JDict(d) : d \in DictsOf(Leaves \cup Level1)}
        \cup Level1

Transforms == { <<"float", "round_float">>, <<"str", "excise_namespace">> }

-----------------------------------------------------------------------------
(* Python's == and dict.items() <= dict.items() *)

IsNum(v) == v.kind \in {"int", "bool", "float"}
NumVal(v) == IF v.kind = "float" THEN v.val ELSE <<v.val, 0>>

\* a == b: numbers by value (1000 == 1000.0, True == 1), text by value, lists
\* element by element, dicts key by key over the same key set
RECURSIVE PyEq(_, _)
PyEq(a, b) ==
    IF IsNum(a) /\ IsNum(b) THEN NumVal(a) = NumVal(b)
    ELSE IF a.kind # b.kind THEN FALSE
    ELSE IF a.kind = "str" THEN a.val = b.val
    ELSE IF a.kind = "list" THEN
        /\ Len(a.val) = Len(b.val)
        /\ \A i \in 1..Len(a.val) : PyEq(a.val[i], b.val[i])
    ELSE
        /\ DOMAIN a.val = DOMAIN b.val
        /\ \A k \in DOMAIN a.val : PyEq(a.val[k], b.val[k])

\* a slip that would compare the two documents as a whole
items_le_whole(spec_local, spec_server) == PyEq(spec_local, spec_server)
\* spec_local.items() <= spec_server.items(): no more items, and every item
\* of spec_local is an item of spec_server
items_le(spec_local, spec_server) ==
    /\ Cardinality(DOMAIN spec_local.val) <= Cardinality(DOMAIN spec_server.val)
    /\ \A k \in DOMAIN spec_local.val :
            /\ k \in DOMAIN spec_server.val
            /\ PyEq(spec_server.val[k], spec_local.val[k])

-----------------------------------------------------------------------------
(* get_names, print_failed_vs_server *)

\* repr() of the values an identity field holds: text and lists of text
\* (and whole numbers); text is taken to hold no quote or backslash
RECURSIVE repr(_)
repr_join(q) ==
    LET F[i \in 0..Len(q)] ==
            IF i = 0 THEN ""
            ELSE IF i = 1 THEN repr(q[1])
            ELSE F[i - 1] \o ", " \o repr(q[i])
    IN  F[Len(q)]
repr(v) ==
    IF v.kind = "str" THEN "'" \o v.val \o "'"
    ELSE IF v.kind = "list" THEN "[" \o repr_join(v.val) \o "]"
    ELSE IF v.kind = "bool" THEN (IF v.val = 1 THEN "True" ELSE "False")
    ELSE ToString(v.val)

\* what an f-string puts for {v}: str(v)
format(v) == IF v.kind = "str" THEN v.val ELSE repr(v)

\* a call that returned `names`, or that raised `exc`
Returned(names) == [exc |-> "", names |-> names]
Raised(exc) == [exc |-> exc, names |-> <<>>]

\* lines 181-182: specs is a list of view or analyzer documents
RECURSIVE names_of_specs(_, _)
names_of_specs(specs, names) ==
    IF specs = <<>> THEN Returned(names)
    ELSE LET spec == Head(specs)
         IN  IF {"name", "type"} \subseteq DOMAIN spec.val
             THEN names_of_specs(Tail(specs),
                    Append(names, format(spec.val["name"]) \o "/"
                                    \o format(spec.val["type"])))
             ELSE Raised("KeyError")

\* lines 185-186: `indexes` is what the struct holds for coll_name.  Iterating
\* a list yields its index documents; iterating a dict yields its keys, which
\* are text, and text[...'type'] raises TypeError.
RECURSIVE names_of_indexes(_, _, _)
names_of_indexes(coll_name, indexes, names) ==
    IF indexes.kind = "dict" THEN
        IF DOMAIN indexes.val = {} THEN Returned(names) ELSE Raised("TypeError")
    ELSE IF indexes.val = <<>> THEN Returned(names)
    ELSE LET index == Head(indexes.val)
         IN  IF index.kind # "dict" THEN Raised("TypeError")
             ELSE IF ~({"type", "fields"} \subseteq DOMAIN index.val)
             THEN Raised("KeyError")
             ELSE names_of_indexes(coll_name, JList(Tail(indexes.val)),
                    Append(names, coll_name \o "/" \o format(index.val["type"])
                                    \o "/" \o format(index.val["fields"])))

\* lines 184-186: specs is a sequence of <<coll_name, indexes>>, in dict order
RECURSIVE names_of_colls(_, _)
names_of_colls(specs, names) ==
    IF specs = <<>> THEN Returned(names)
    ELSE LET r == names_of_indexes(Head(specs)[1], Head(specs)[2], names)
         IN  IF r.exc # "" THEN r ELSE names_of_colls(Tail(specs), r.names)

get_names(specs, schema_type) ==
    IF schema_type \in {"views", "analyzers"} THEN names_of_specs(specs, <<>>)
    ELSE IF schema_type \in {"indexes"} THEN names_of_colls(specs, <<>>)
    ELSE Raised("RuntimeError")

\* The message is only printed; what the caller can observe is whether
\* building it raised: get_names of the failed specs, then of the server specs.
print_failed_vs_server(schema_type, failed, server_specs) ==
    LET a == get_names(failed, schema_type)
    IN  IF a.exc # "" THEN a.exc ELSE get_names(server_specs, schema_type).exc

-----------------------------------------------------------------------------
(* get_local_coll_indexes, ensure_indexes *)

\* d[k] = v on a dict held as a sequence of <<key, value>> in insertion order
dict_set(d, k, v) ==
    IF \E i \in 1..Len(d) : d[i][1] = k
    THEN [i \in 1..Len(d) |-> IF d[i][1] = k THEN <<k, v>> ELSE d[i]]
    ELSE Append(d, <<k, v>>)

\* the items of a mapping held as a function, in some order
RECURSIVE items(_)
items(m) ==
    IF DOMAIN m = {} THEN <<>>
    ELSE LET k == CHOOSE k \in DOMAIN m : TRUE
         IN  <<<<k, m[k]>>>> \o items([j \in DOMAIN m \ {k} |-> m[j]])

\* coll_name_2_indexes of the collection schemas, those without "indexes" left out
RECURSIVE get_local_coll_indexes(_)
get_local_coll_indexes(colls) ==
    IF colls = <<>> THEN <<>>
    ELSE LET coll == colls[Len(colls)]
             before == get_local_coll_indexes(SubSeq(colls, 1, Len(colls) - 1))
         IN  IF "indexes" \notin DOMAIN coll.val THEN before
             ELSE dict_set(before, coll.val["name"].val, coll.val["indexes"])

\* lines 57-64 for one collection: what failed_specs[coll_name] holds after
\* the local indexes `todo` were looked at, given what it held before
RECURSIVE match_indexes(_, _, _)
match_indexes(todo, indexes_server, failed) ==
    IF todo = <<>> THEN failed
    ELSE LET index_local == Head(todo)
             match == \E i \in 1..Len(indexes_server) :
                            items_le(index_local, indexes_server[i])
         IN  match_indexes(Tail(todo), indexes_server,
                           IF match THEN failed ELSE index_local)

\* lines 46-64: failed_specs after the loop over the local collections
RECURSIVE index_loop(_, _, _)
\* a slip that would record nothing for a collection the server lacks
index_loop_absent_empty(todo, coll_name_2_indexes_server, failed) ==
    IF todo = <<>> THEN failed
    ELSE LET coll_name == Head(todo)[1]
             indexes_local == Head(todo)[2]
         IN  index_loop(Tail(todo), coll_name_2_indexes_server,
                dict_set(failed, coll_name,
                    IF coll_name \notin DOMAIN coll_name_2_indexes_server
                    THEN JList(<<>>)
                    ELSE match_indexes(indexes_local.val,
                            coll_name_2_indexes_server[coll_name].val,
                            JList(<<>>))))
index_loop(todo, coll_name_2_indexes_server, failed) ==
    IF todo = <<>> THEN failed
    ELSE LET coll_name == Head(todo)[1]
             indexes_local == Head(todo)[2]
         IN  index_loop(Tail(todo), coll_name_2_indexes_server,
                dict_set(failed, coll_name,
                    IF coll_name \notin DOMAIN coll_name_2_indexes_server
                    THEN indexes_local
                    ELSE match_indexes(indexes_local.val,
                            coll_name_2_indexes_server[coll_name].val,
                            JList(<<>>))))

\* truth value of a list or dict
truthy(v) == v.val # <<>>

\* what a family's function hands back: the names and the failure struct, or
\* the exception that left it
Outcome(exc, names, failed) == [exc |-> exc, names |-> names, failed |-> failed]

ensure_indexes(coll_name_2_indexes_server, colls) ==
    LET coll_name_2_indexes_local == get_local_coll_indexes(colls)
        looped == index_loop(coll_name_2_indexes_local,
                             coll_name_2_indexes_server, <<>>)
        failed == SelectSeq(looped, LAMBDA kv : truthy(kv[2]))
        printed == IF failed # <<>>
                   THEN print_failed_vs_server("indexes", failed,
                            items(coll_name_2_indexes_server))
                   ELSE ""
        named == get_names(failed, "indexes")
    IN  IF printed # "" THEN Outcome(printed, <<>>, failed)
        ELSE Outcome(named.exc, named.names, failed)

-----------------------------------------------------------------------------
(* ensure_views, ensure_analyzers *)

\* lines 93-103: the views with no server view that has all their items
RECURSIVE views_loop(_, _, _)
views_loop(todo, all_views_server, failed) ==
    IF todo = <<>> THEN failed
    ELSE LET view_local == Head(todo)
             match == \E i \in 1..Len(all_views_server) :
                            items_le(view_local, all_views_server[i])
         IN  views_loop(Tail(todo), all_views_server,
                        IF match THEN failed ELSE Append(failed, view_local))

\* all_views_server here is the fetched list after line 90 rounded it
ensure_views(all_views_server, view_locals) ==
    LET failed == views_loop(view_locals, all_views_server, <<>>)
        printed == IF failed # <<>>
                   THEN print_failed_vs_server("views", failed, all_views_server)
                   ELSE ""
        named == get_names(failed, "views")
    IN  IF printed # "" THEN Outcome(printed, <<>>, failed)
        ELSE Outcome(named.exc, named.names, failed)

\* lines 129-139.  `match` is assigned only inside the loop over the server's
\* analyzers: "unbound" until that loop has run once, and otherwise what the
\* last run of it left.  Reading it unbound raises UnboundLocalError.
RECURSIVE analyzers_loop(_, _, _, _)
analyzers_loop(todo, all_analyzers_server, match, failed) ==
    IF todo = <<>> THEN Outcome("", <<>>, failed)
    ELSE LET analyzer_local == Head(todo)
             found == \E i \in 1..Len(all_analyzers_server) :
                            items_le(analyzer_local, all_analyzers_server[i])
             now == IF all_analyzers_server = <<>> THEN match
                    ELSE IF found THEN "True" ELSE "False"
         IN  IF now = "unbound" THEN Outcome("UnboundLocalError", <<>>, failed)
             ELSE analyzers_loop(Tail(todo), all_analyzers_server, now,
                    IF now = "False" THEN Append(failed, analyzer_local)
                    ELSE failed)

\* all_analyzers_server here is the fetched list after line 126 excised it
ensure_analyzers(all_analyzers_server, analyzer_locals) ==
    LET looped == analyzers_loop(analyzer_locals, all_analyzers_server,
                                 "unbound", <<>>)
        failed == looped.failed
        printed == IF failed # <<>>
                   THEN print_failed_vs_server("analyzers", failed,
                                               all_analyzers_server)
                   ELSE ""
        named == get_names(failed, "analyzers")
    IN  IF looped.exc # "" THEN looped
        ELSE IF printed # "" THEN Outcome(printed, <<>>, failed)
        ELSE Outcome(named.exc, named.names, failed)

-----------------------------------------------------------------------------
(* ensure_all *)

\* lines 168-172: the dict that ensure_all returns, as its items in order
ensure_all_summary_views_first(indexes_names, views_names, analyzers_names) ==
    << <<"views", views_names>>,
       <<"indexes", indexes_names>>,
       <<"analyzers", analyzers_names>> >>
ensure_all_summary(indexes_names, views_names, analyzers_names) ==
    << <<"indexes", indexes_names>>,
       <<"views", views_names>>,
       <<"analyzers", analyzers_names>> >>

\* where control is once the function fn has returned: back in the caller when
\* fn was called directly, at ensure_all's next statement otherwise
after(fn) ==
    IF entry # "ensure_all" THEN "returned"
    ELSE IF fn = "ensure_indexes" THEN "ensure_views"
    ELSE IF fn = "ensure_views" THEN "ensure_analyzers"
    ELSE "return"

\* arango_client raises while `call` is made: nothing in ensure_specs.py has a
\* try, so the exception leaves the family's function and then ensure_all
client_raises_retry(call) ==
    [pc |-> "raised", raised |-> "BackendError",
     calls |-> calls \o <<call, call>>]
client_raises(call) ==
    [pc |-> "raised", raised |-> "BackendError", calls |-> Append(calls, call)]

-----------------------------------------------------------------------------
(* The specs on disk and on the server *)

\* A family's function called on its own is given every spec below, in lists
\* of up to MaxLocal and MaxServer; under ensure_all, which runs the three one
\* after the other, each family is given the specs of one name, in lists of
\* up to MaxAll.
LocalCap == IF entry = "ensure_all" THEN MaxAll ELSE MaxLocal
ServerCap == IF entry = "ensure_all" THEN MaxAll ELSE MaxServer
Under(docs, n) ==
    IF entry = "ensure_all" THEN {d \in docs : d.val["name"].val = n} ELSE docs

CollNames == IF entry = "ensure_all" THEN {"reactions"} ELSE {"reactions", "taxa"}

LocalIndexDocs ==
    { JDict([type |-> JStr("persistent"), fields |-> JList(<<JStr("id")>>)]),
      JDict([type |-> JStr("persistent"),
             fields |-> JList(<<JStr("id"), JStr("key")>>),
             unique |-> JBool(1)]) }

ServerIndexDocs ==
    { JDict([type |-> JStr("primary"), fields |-> JList(<<JStr("_key")>>),
             unique |-> JBool(1)]),
      JDict([type |-> JStr("persistent"), fields |-> JList(<<JStr("id")>>),
             unique |-> JBool(0), sparse |-> JBool(0)]) }

\* collection schemas: with "indexes" or without
CollDocs ==
    {JDict([name |-> JStr(n)]) : n \in CollNames}
        \cup {JDict([name |-> JStr(n), indexes |-> JList(q)]) :
                n \in CollNames, q \in SeqsUpTo(LocalIndexDocs, LocalCap)}

\* one schema file per collection
LocalCollChoices ==
    {q \in SeqsUpTo(CollDocs, Cardinality(CollNames)) :
        \A i, j \in 1..Len(q) : i # j => q[i].val["name"] # q[j].val["name"]}

\* get_all_indexes: the collections that have indexes, each with its list
ServerIndexChoices ==
    UNION {[S -> {JList(q) : q \in SeqsUpTo(ServerIndexDocs, ServerCap)}] :
            S \in SUBSET CollNames}

NoLinks == JDict(<<>>)

LocalViewDocs ==
    { JDict([name |-> JStr("Compounds"), type |-> JStr("arangosearch"),
             links |-> JDict([compounds_coll |-> NoLinks])]),
      JDict([name |-> JStr("Taxa"), type |-> JStr("arangosearch"),
             consolidationIntervalMsec |-> JFloat(<<1000, 1>>)]),
      JDict([name |-> JStr("Taxa"), type |-> JStr("arangosearch"),
             consolidationIntervalMsec |-> JFloat(<<1000, 0>>)]) }

ServerViewDocs ==
    { JDict([name |-> JStr("Compounds"), type |-> JStr("arangosearch"),
             links |-> JDict([compounds_coll |-> NoLinks])]),
      JDict([name |-> JStr("Compounds"), type |-> JStr("arangosearch"),
             links |-> JDict([compounds_coll |-> NoLinks]),
             globallyUniqueId |-> JStr("h12345")]),
      JDict([name |-> JStr("Compounds"), type |-> JStr("arangosearch"),
             links |-> JDict([compounds_coll |-> NoLinks,
                              reactions_coll |-> NoLinks]),
             globallyUniqueId |-> JStr("h12346")]),
      JDict([name |-> JStr("Taxa"), type |-> JStr("arangosearch"),
             consolidationIntervalMsec |-> JFloat(<<1000, 0>>),
             globallyUniqueId |-> JStr("h12347")]),
      JDict([name |-> JStr("Taxa"), type |-> JStr("arangosearch"),
             consolidationIntervalMsec |-> JFloat(<<1000, 1>>)]),
      JDict([name |-> JStr("Taxa"), type |-> JStr("arangosearch"),
             consolidationIntervalMsec |-> JFloat(<<999, FloatUnit - 1>>)]) }

LocalViewChoices == SeqsUpTo(Under(LocalViewDocs, "Taxa"), LocalCap)
ServerViewChoices == SeqsUpTo(Under(ServerViewDocs, "Taxa"), ServerCap)

LocalAnalyzerDocs ==
    { JDict([name |-> JStr("icu_tokenize"), type |-> JStr("text")]),
      JDict([name |-> JStr("icu_tokenize"), type |-> JStr("text"),
             properties |-> JDict([locale |-> JStr("en")])]),
      JDict([name |-> JStr("identity"), type |-> JStr("identity")]) }

ServerAnalyzerDocs ==
    { JDict([name |-> JStr("_system::icu_tokenize"), type |-> JStr("text"),
             properties |-> JDict([locale |-> JStr("en")])]),
      JDict([name |-> JStr("_system::icu_tokenize"), type |-> JStr("text"),
             properties |-> JDict([locale |-> JStr("de")])]),
      JDict([name |-> JStr("identity"), type |-> JStr("identity"),
             features |-> JList(<<JStr("frequency"), JStr("norm")>>)]) }

LocalAnalyzerChoices ==
    SeqsUpTo(Under(LocalAnalyzerDocs, "icu_tokenize"), LocalCap)
ServerAnalyzerChoices ==
    SeqsUpTo(Under(ServerAnalyzerDocs, "_system::icu_tokenize"), ServerCap)

-----------------------------------------------------------------------------
(* State machine *)

InitNormIdle ==
    /\ spec_unit = JList(<<>>)
    /\ literal_type = ""
    /\ func = ""
    /\ hist = <<>>

InitRun(fn) ==
    /\ entry = fn
    /\ pc = IF fn = "ensure_all" THEN "ensure_indexes" ELSE fn
    /\ calls = <<>>
    /\ finished = <<>>
    /\ fetched = <<>>
    /\ server = <<>>
    /\ local = <<>>
    /\ failed_specs = <<>>
    /\ failed_indexes_names = <<>>
    /\ failed_views_names = <<>>
    /\ failed_analyzers_names = <<>>
    /\ result = <<>>
    /\ raised = ""

\* the fetch of a family's server state raises
ClientRaises(call) ==
    LET r == client_raises(call)
    IN  /\ pc' = r.pc
        /\ raised' = r.raised
        /\ calls' = r.calls
        /\ UNCHANGED <<entry, finished, fetched, server, local, failed_specs,
                       failed_indexes_names, failed_views_names,
                       failed_analyzers_names, result, normVars>>

\* a family's function fn ends with `out`
Ends(fn, out) ==
    /\ failed_specs' = out.failed
    /\ IF out.exc # ""
       THEN /\ pc' = "raised"
            /\ raised' = out.exc
            /\ UNCHANGED finished
       ELSE /\ pc' = after(fn)
            /\ raised' = ""
            /\ finished' = Append(finished, fn)

EnsureIndexes ==
    /\ pc = "ensure_indexes"
    /\ \/ ClientRaises("get_all_indexes")
       \/ \E coll_name_2_indexes_server \in ServerIndexChoices,
             colls \in LocalCollChoices :
            LET out == ensure_indexes(coll_name_2_indexes_server, colls)
            IN  /\ calls' = Append(calls, "get_all_indexes")
                /\ fetched' = coll_name_2_indexes_server
                /\ server' = coll_name_2_indexes_server
                /\ local' = colls
                /\ Ends("ensure_indexes", out)
                /\ failed_indexes_names' = out.names
                /\ UNCHANGED <<entry, failed_views_names,
                               failed_analyzers_names, result, normVars>>

EnsureViews ==
    /\ pc = "ensure_views"
    /\ \/ ClientRaises("get_all_views")
       \/ \E got \in ServerViewChoices, view_locals \in LocalViewChoices :
            LET all_views_server ==
                    mod_obj_literal(JList(got), "float", "round_float").val
                out == ensure_views(all_views_server, view_locals)
            IN  /\ calls' = Append(calls, "get_all_views")
                /\ fetched' = got
                /\ server' = all_views_server
                /\ local' = view_locals
                /\ Ends("ensure_views", out)
                /\ failed_views_names' = out.names
                /\ UNCHANGED <<entry, failed_indexes_names,
                               failed_analyzers_names, result, normVars>>

EnsureAnalyzers ==
    /\ pc = "ensure_analyzers"
    /\ \/ ClientRaises("get_all_analyzers")
       \/ \E got \in ServerAnalyzerChoices,
             analyzer_locals \in LocalAnalyzerChoices :
            LET all_analyzers_server ==
                    mod_obj_literal(JList(got), "str", "excise_namespace").val
                out == ensure_analyzers(all_analyzers_server, analyzer_locals)
            IN  /\ calls' = Append(calls, "get_all_analyzers")
                /\ fetched' = got
                /\ server' = all_analyzers_server
                /\ local' = analyzer_locals
                /\ Ends("ensure_analyzers", out)
                /\ failed_analyzers_names' = out.names
                /\ UNCHANGED <<entry, failed_indexes_names,
                               failed_views_names, result, normVars>>

\* lines 168-172
Return ==
    /\ pc = "return"
    /\ result' = ensure_all_summary(failed_indexes_names, failed_views_names,
                                    failed_analyzers_names)
    /\ pc' = "returned"
    /\ UNCHANGED <<entry, calls, finished, fetched, server, local, failed_specs,
                   failed_indexes_names, failed_views_names,
                   failed_analyzers_names, raised, normVars>>

\* ensure_all
Init == InitRun("ensure_all") /\ InitNormIdle
Next == EnsureIndexes \/ EnsureViews \/ EnsureAnalyzers \/ Return
Spec == Init /\ [][Next]_vars

\* ensure_indexes called on its own
InitIndexes == InitRun("ensure_indexes") /\ InitNormIdle
NextIndexes == EnsureIndexes
SpecIndexes == InitIndexes /\ [][NextIndexes]_vars

\* ensure_views called on its own
InitViews == InitRun("ensure_views") /\ InitNormIdle
NextViews == EnsureViews
SpecViews == InitViews /\ [][NextViews]_vars

\* ensure_analyzers called on its own
InitAnalyzers == InitRun("ensure_analyzers") /\ InitNormIdle
NextAnalyzers == EnsureAnalyzers
SpecAnalyzers == InitAnalyzers /\ [][NextAnalyzers]_vars

\* mod_obj_literal called on its own
InitNorm ==
    /\ InitRun("mod_obj_literal")
    /\ spec_unit \in Structures
    /\ \E t \in Transforms : literal_type = t[1] /\ func = t[2]
    /\ hist = <<spec_unit>>

ModObjLiteral ==
    /\ pc = "mod_obj_literal"
    /\ Len(hist) <= MaxApply
    /\ spec_unit' = mod_obj_literal(spec_unit, literal_type, func)
    /\ hist' = Append(hist, spec_unit')
    /\ UNCHANGED <<literal_type, func, runVars>>

NextNorm == ModObjLiteral
SpecNorm == InitNorm /\ [][NextNorm]_vars

-----------------------------------------------------------------------------
(* What the specification says of a match (section 4.2) *)

\* deep equality: scalars by value, mappings over the same key set, sequences
\* of the same length element by element
RECURSIVE DeepEqual(_, _)
DeepEqual(a, b) ==
    IF a.kind = "dict" \/ b.kind = "dict" THEN
        /\ a.kind = b.kind
        /\ DOMAIN a.val = DOMAIN b.val
        /\ \A k \in DOMAIN a.val : DeepEqual(a.val[k], b.val[k])
    ELSE IF a.kind = "list" \/ b.kind = "list" THEN
        /\ a.kind = b.kind
        /\ Len(a.val) = Len(b.val)
        /\ \A i \in 1..Len(a.val) : DeepEqual(a.val[i], b.val[i])
    ELSE IF a.kind = "str" \/ b.kind = "str" THEN a = b
    ELSE NumVal(a) = NumVal(b)

\* document D has every key of L, with a deeply-equal value
Contains(D, L) ==
    \A k \in DOMAIN L.val : k \in DOMAIN D.val /\ DeepEqual(D.val[k], L.val[k])

\* some document of the pool contains L
Satisfied(L, pool) == \E i \in 1..Len(pool) : Contains(pool[i], L)

Unsatisfied(specs, pool) == SelectSeq(specs, LAMBDA L : ~Satisfied(L, pool))

Range(q) == {q[i] : i \in 1..Len(q)}

NameType(L) == L.val["name"].val \o "/" \o L.val["type"].val
NamesTypes(specs) == [i \in 1..Len(specs) |-> NameType(specs[i])]

\* "{collection}/{index_type}/{index_fields}"
IndexIdentity(coll_name, index) ==
    coll_name \o "/" \o index.val["type"].val \o "/" \o repr(index.val["fields"])

\* the local collections that declare indexes, and what they declare
Declared == {i \in 1..Len(local) : "indexes" \in DOMAIN local[i].val}
CollName(i) == local[i].val["name"].val
Indexes(i) == local[i].val["indexes"].val

\* what the failure struct holds for a collection, <<>> if it is left out
StructOf(coll_name) ==
    LET at == {j \in 1..Len(failed_specs) : failed_specs[j][1] = coll_name}
    IN  IF at = {} THEN <<>> ELSE failed_specs[CHOOSE j \in at : TRUE][2]

IsPrefix(a, b) == Len(a) <= Len(b) /\ a = SubSeq(b, 1, Len(a))

-----------------------------------------------------------------------------
(* Claims *)

\* C1: once ensure_indexes is over (the fetch having succeeded), it has
\* returned, and for every local collection with indexes that the server
\* state holds, the failure struct keeps under its name the list of exactly
\* the local indexes that no live index of it contains (nothing when there is
\* none), and the name list has the identity of each.
C1_AllMismatchesKept ==
    (pc # "ensure_indexes" /\ raised # "BackendError") =>
        /\ raised = ""
        /\ \A i \in Declared :
            CollName(i) \in DOMAIN fetched =>
                LET bad == Unsatisfied(Indexes(i), fetched[CollName(i)].val)
                IN  /\ StructOf(CollName(i)) = IF bad = <<>> THEN <<>> ELSE JList(bad)
                    /\ \A j \in 1..Len(bad) :
                          IndexIdentity(CollName(i), bad[j])
                              \in Range(failed_indexes_names)

\* C2: once ensure_analyzers is over (the fetch having succeeded), it has
\* returned, and the failure list holds, in order, exactly the local analyzers
\* that no server analyzer contains after the namespaces were excised, for a
\* server list of any length.
C2_AnalyzerFailsIffUnsatisfied ==
    (pc # "ensure_analyzers" /\ raised # "BackendError") =>
        /\ raised = ""
        /\ failed_specs = Unsatisfied(local, server)
        /\ failed_analyzers_names = NamesTypes(failed_specs)

\* C3: ensure_views returns unless the fetch raised, and then the failure
\* list holds, in order, exactly the local views that no rounded server view
\* contains (every key of the local view, with a deeply-equal value; extra
\* top-level keys allowed, nested mappings equal exactly), and the name list
\* names them.
C3_ViewFailsIffUnsatisfied ==
    /\ raised \in {"", "BackendError"}
    /\ pc = "returned" =>
        /\ failed_specs = Unsatisfied(local, server)
        /\ failed_views_names = NamesTypes(failed_specs)

\* a local view with a nested mapping is failed by a server view that has all
\* its keys but more entries in the nested mapping, next to a local view that
\* a server view with extra top-level keys satisfies
C3_Witness ==
    /\ pc = "returned"
    /\ \E L \in Range(local), D \in Range(server) :
        /\ "links" \in DOMAIN L.val
        /\ DOMAIN L.val \subseteq DOMAIN D.val
        /\ DOMAIN L.val["links"].val \subseteq DOMAIN D.val["links"].val
        /\ DOMAIN L.val["links"].val # DOMAIN D.val["links"].val
        /\ L \in Range(failed_specs)
    /\ \E L \in Range(local), D \in Range(server) :
        /\ Contains(D, L)
        /\ DOMAIN D.val # DOMAIN L.val
        /\ L \notin Range(failed_specs)

\* C4: ensure_all is left by no exception other than a backend error of the
\* client: a mismatch never raises.
C4_MismatchNeverRaises == raised \in {"", "BackendError"}

ClientCallOrder == <<"get_all_indexes", "get_all_views", "get_all_analyzers">>
FamilyOrder == <<"ensure_indexes", "ensure_views", "ensure_analyzers">>

\* C6: the families are fetched and finished in the order indexes, views,
\* analyzers, a family being fetched only once the ones before it have
\* finished; what ensure_all returns has the keys indexes, views, analyzers
\* in that order, each with that family's names.
C6_FixedOrder ==
    /\ IsPrefix(calls, ClientCallOrder)
    /\ IsPrefix(finished, FamilyOrder)
    /\ Len(calls) <= Len(finished) + 1
    /\ pc # "returned" => result = <<>>
    /\ pc = "returned" =>
        /\ finished = FamilyOrder
        /\ [i \in 1..Len(result) |-> result[i][1]]
                = <<"indexes", "views", "analyzers">>
        /\ result[1][2] = failed_indexes_names
        /\ result[2][2] = failed_views_names
        /\ result[3][2] = failed_analyzers_names
        /\ result[3][2] = NamesTypes(Unsatisfied(local, server))

\* a summary with failures for indexes and views and none for analyzers
C6_Witness ==
    /\ pc = "returned"
    /\ result[1][2] # <<>>
    /\ result[2][2] # <<>>
    /\ result[3][2] = <<>>

\* C7 as stated: a local Taxa view with consolidationIntervalMsec
\* 1000.00000001 is not reported when the server reports 1000.0000000 for it.
C7_LocalNoiseMatched ==
    (/\ pc = "returned"
     /\ JDict([name |-> JStr("Taxa"), type |-> JStr("arangosearch"),
               consolidationIntervalMsec |-> JFloat(<<1000, 1>>)])
            \in Range(local)
     /\ \E D \in Range(fetched) :
            /\ D.val["name"] = JStr("Taxa")
            /\ D.val["type"] = JStr("arangosearch")
            /\ "consolidationIntervalMsec" \in DOMAIN D.val
            /\ D.val["consolidationIntervalMsec"] = JFloat(<<1000, 0>>))
        => "Taxa/arangosearch" \notin Range(failed_views_names)

\* a float already rounded to Places places
IsRounded(num) == num[2] % Step = 0

\* two floats less than half of 10^-Places apart
Near(a, b) ==
    \/ a[1] = b[1] /\ 2 * (a[2] - b[2]) < Step /\ 2 * (b[2] - a[2]) < Step
    \/ a[1] = b[1] + 1 /\ 2 * (a[2] + (FloatUnit - b[2])) < Step
    \/ b[1] = a[1] + 1 /\ 2 * (b[2] + (FloatUnit - a[2])) < Step

\* D has every key of L, a float of L being met by a float near it and any
\* other value by a deeply-equal one
NearContains(D, L) ==
    \A k \in DOMAIN L.val :
        /\ k \in DOMAIN D.val
        /\ IF L.val[k].kind = "float" /\ D.val[k].kind = "float"
           THEN Near(D.val[k].val, L.val[k].val)
           ELSE DeepEqual(D.val[k], L.val[k])

TopFloats(L) == {k \in DOMAIN L.val : L.val[k].kind = "float"}

\* C7 as amended: only the server's side is rounded.  A local view whose
\* floats are rounded to 7 places is not reported when a fetched view has all
\* its keys with values that differ only beyond the 7th place (local 1000.0,
\* server 1000.00000001 or 999.99999999); a local view with a float that is
\* not rounded to 7 places is always reported.
C7_ServerNoiseMatched ==
    pc = "returned" =>
        \A L \in Range(local) :
            /\ ((\A k \in TopFloats(L) : IsRounded(L.val[k].val))
                    /\ \E D \in Range(fetched) : NearContains(D, L))
                => L \notin Range(failed_specs)
            /\ (\E k \in TopFloats(L) : ~IsRounded(L.val[k].val))
                => L \in Range(failed_specs)

\* local 1000.0 against a server that reports only 999.99999999: matched
C7_Witness ==
    /\ pc = "returned"
    /\ local = << JDict([name |-> JStr("Taxa"), type |-> JStr("arangosearch"),
                         consolidationIntervalMsec |-> JFloat(<<1000, 0>>)]) >>
    /\ fetched = << JDict([name |-> JStr("Taxa"), type |-> JStr("arangosearch"),
                     consolidationIntervalMsec |-> JFloat(<<999, FloatUnit - 1>>)]) >>
    /\ failed_views_names = <<>>

\* C8: each further application of mod_obj_literal, with round_float or with
\* excise_namespace, leaves the structure as the application before left it.
C8_Idempotent ==
    \A i \in 2..(Len(hist) - 1) : hist[i + 1] = hist[i]

\* a structure that the first application changed, applied to twice
C8_Witness ==
    /\ Len(hist) >= 3
    /\ hist[2] # hist[1]
    /\ hist[3] = hist[2]

\* the nodes of a structure are reached by paths of steps: a key of a dict or
\* a position of a list
KeyStep(k) == [key |-> k, idx |-> 0]
IdxStep(i) == [key |-> "", idx |-> i]

RECURSIVE Paths(_)
Paths(v) ==
    {<<>>} \cup
        IF v.kind = "dict" THEN
            UNION {{<<KeyStep(k)>> \o p : p \in Paths(v.val[k])} : k \in DOMAIN v.val}
        ELSE IF v.kind = "list" THEN
            UNION {{<<IdxStep(i)>> \o p : p \in Paths(v.val[i])} : i \in 1..Len(v.val)}
        ELSE {}

RECURSIVE At(_, _)
At(v, p) ==
    IF p = <<>> THEN v
    ELSE IF v.kind = "dict" THEN At(v.val[Head(p).key], Tail(p))
    ELSE At(v.val[Head(p).idx], Tail(p))

\* the substring after the last "::" of s, s itself if it has none
AfterLast(s) ==
    LET hits == {i \in 1..(Len(s) - 1) : SubSeq(s, i, i + 1) = "::"}
    IN  IF hits = {} THEN s
        ELSE SubSeq(s, (CHOOSE i \in hits : \A j \in hits : j <= i) + 2, Len(s))

HasColonRun(s) == \E i \in 1..(Len(s) - 2) : SubSeq(s, i, i + 2) = ":::"

\* the first application kept the shape of the structure and every leaf that
\* is not of the target kind, and put Leaf(x) for every leaf x of that kind
Rewritten(a, b, Leaf(_)) ==
    /\ Paths(b) = Paths(a)
    /\ \A p \in Paths(a) :
        LET x == At(a, p)
            y == At(b, p)
        IN  IF x.kind = "dict" THEN y.kind = "dict" /\ DOMAIN y.val = DOMAIN x.val
            ELSE IF x.kind = "list" THEN y.kind = "list" /\ Len(y.val) = Len(x.val)
            ELSE IF x.kind = literal_type THEN y = Leaf(x)
            ELSE y = x

\* C9 as stated: mod_obj_literal rewrites every leaf of the target kind at
\* every depth and nothing else, a float to its rounding to 7 places and a
\* text to the substring after its last "::".
C9_LeavesRewrittenAfterLast ==
    Len(hist) >= 2 =>
        Rewritten(hist[1], hist[2],
                  LAMBDA x : IF func = "round_float"
                             THEN JFloat(round_float(x.val))
                             ELSE JStr(AfterLast(x.val)))

\* C9 as amended: the same, a text becoming the last of the pieces that
\* splitting it at "::" from the left gives, which is the substring after its
\* last "::" whenever the text has no three colons in a row.
C9_LeavesRewrittenLastPiece ==
    Len(hist) >= 2 =>
        /\ Rewritten(hist[1], hist[2],
                     LAMBDA x : IF func = "round_float"
                                THEN JFloat(round_float(x.val))
                                ELSE LET parts == split(x.val, "::")
                                     IN  JStr(parts[Len(parts)]))
        /\ \A p \in Paths(hist[1]) :
            LET x == At(hist[1], p)
            IN  (func = "excise_namespace" /\ x.kind = "str" /\ ~HasColonRun(x.val))
                    => At(hist[2], p).val = AfterLast(x.val)

\* a namespaced text inside a list inside a dict was excised, next to a
\* number that was kept
C9_Witness ==
    /\ Len(hist) >= 2
    /\ func = "excise_namespace"
    /\ \E p \in Paths(hist[1]) :
        /\ Len(p) = 2
        /\ p[1].key # ""
        /\ p[2].idx = 2
        /\ At(hist[1], p) = JStr("a::b::c")
        /\ At(hist[2], p) = JStr("c")
        /\ At(hist[1], <<p[1], IdxStep(1)>>) = JInt(1000)
        /\ At(hist[2], <<p[1], IdxStep(1)>>) = JInt(1000)

\* C10: when a fetch raised a backend error, ensure_all (or the family's
\* function) is left by that error with no summary, the fetch is the one of
\* the family that was running, no fetch was made twice, and nothing more
\* happens.
C10_BackendErrorPropagates ==
    raised = "BackendError" =>
        /\ pc = "raised"
        /\ result = <<>>
        /\ IsPrefix(calls, ClientCallOrder)
        /\ Len(calls) = Len(finished) + 1
        /\ ~ENABLED Next

\* the fetch of the analyzers raised after indexes and views had finished
C10_Witness ==
    /\ raised = "BackendError"
    /\ calls = ClientCallOrder
    /\ finished = <<"ensure_indexes", "ensure_views">>

====
